---- MODULE Spec2Model ----
(***************************************************************************)
(* richardparker: a brace-delimited template compiler (src/compiler.js).   *)
(* The file holds two builds of the compiler: the current one (lines       *)
(* 1-293, which requires ./runtime.js) and the bundled component build     *)
(* (lines 502-825, with its own runtime: resolve and each).                *)
(*                                                                         *)
(* A JavaScript string is a sequence of one-character strings.  A parse    *)
(* tree is a sequence of slots, a slot being either a string or a child    *)
(* node; slots, data values, generated statements and call frames are      *)
(* records of one shape each.                                              *)
(***************************************************************************)
EXTENDS Integers, Sequences, FiniteSets, TLC

VARIABLES build, input, phase, str, i, current, stack, results, macroName,
          err, macros, code, data, frames, out, result

vars == <<build, input, phase, str, i, current, stack, results, macroName,
          err, macros, code, data, frames, out, result>>

(* ------------------------------ bounds -------------------------------- *)

\* longest template drawn from the brace alphabet
MaxLen == 4
\* longest brace-free template drawn from the text alphabet
MaxText == 2
\* longest array in the data
MaxArr == 2
\* deepest nesting of the generated macro templates
MaxDepth == 2
\* longest leading slot given to parseArg on its own
MaxArg == 4

(* ------------------------------- builds ------------------------------- *)

\* the compiler of lines 1-293 and the bundled build of lines 502-825
Builds == {"compiler", "bundle"}

(* ------------------------------ strings ------------------------------- *)

Strings(A, n) == UNION {[1..k -> A] : k \in 0..n}

\* \s and \S of the regular expressions of parseArg
IsSpace(c) == c \in {" ", "\n", "\t"}

Last(s) == s[Len(s)]
Front(s) == SubSeq(s, 1, Len(s) - 1)

RECURSIVE Concat(_)
Concat(ss) == IF ss = <<>> THEN <<>> ELSE Head(ss) \o Concat(Tail(ss))

\* decimal text of a small array index
Digit(k) == <<"0", "1", "2", "3", "4", "5", "6", "7", "8", "9">>[k + 1]
NumStr(k) == IF k < 10 THEN <<Digit(k)>> ELSE <<Digit(k \div 10), Digit(k % 10)>>

(* ------------------------------- trees -------------------------------- *)

StrSlot(s) == [t |-> "s", s |-> s, c |-> <<>>]
NodeSlot(n) == [t |-> "n", s |-> <<>>, c |-> n]

\* results = [''] and current = [''] of parse
EmptyNode == <<StrSlot(<<>>)>>

\* case '{': stack.push(current); current = ['']
OpenNode(cur) == EmptyNode

\* case '}': parent.push(current); current = parent; current.push('')
\* (CloseNodeNoSlot: the same without the trailing current.push(''))
CloseNodeNoSlot(parent, cur) == Append(parent, NodeSlot(cur))
CloseNode(parent, cur) == Append(Append(parent, NodeSlot(cur)), StrSlot(<<>>))

\* default: current[current.length - 1] += str[i]
AppendChar(cur, c) ==
  [cur EXCEPT ![Len(cur)] = [@ EXCEPT !.s = Append(@, c)]]

(* --------------------------- helper (compile) -------------------------- *)

\* /^\S+/.exec(s): the run of non-whitespace characters the string begins with
RECURSIVE LeadRun(_)
LeadRun(s) ==
  IF s = <<>> \/ IsSpace(Head(s)) THEN <<>> ELSE <<Head(s)>> \o LeadRun(Tail(s))

\* s.replace(/^\s+/, '')
RECURSIVE DropSpace(_)
DropSpace(s) ==
  IF s # <<>> /\ IsSpace(Head(s)) THEN DropSpace(Tail(s)) ELSE s

\* helper.parseArg: the value it returns ...
ArgToken(tree) == LeadRun(tree[1].s)

\* ... and the tree it leaves: tree[0] = tree[0].substr(arg.length).replace(/^\s+/, '')
\* (ArgRestKeepSpace: the same without the replace)
ArgRestKeepSpace(tree) ==
  [tree EXCEPT ![1] = StrSlot(SubSeq(tree[1].s, Len(ArgToken(tree)) + 1, Len(tree[1].s)))]
ArgRest(tree) ==
  [tree EXCEPT ![1] =
     StrSlot(DropSpace(SubSeq(tree[1].s, Len(ArgToken(tree)) + 1, Len(tree[1].s))))]

\* bundled parsePath, first replace: /(\["?|"?])/g -> '.'
RECURSIVE BracketsToDots(_)
BracketsToDots(s) ==
  IF s = <<>> THEN <<>>
  ELSE IF Head(s) = "[" THEN
         IF Len(s) >= 2 /\ s[2] = "\"" THEN <<".">> \o BracketsToDots(Tail(Tail(s)))
         ELSE <<".">> \o BracketsToDots(Tail(s))
  ELSE IF Head(s) = "\"" /\ Len(s) >= 2 /\ s[2] = "]" THEN
         <<".">> \o BracketsToDots(Tail(Tail(s)))
  ELSE IF Head(s) = "]" THEN <<".">> \o BracketsToDots(Tail(s))
  ELSE <<Head(s)>> \o BracketsToDots(Tail(s))

\* second replace: /^(?=[^\.])/ -> '.'; third: /\.$/ -> ''
DotPrefix(s) == IF s # <<>> /\ Head(s) # "." THEN <<".">> \o s ELSE s
DropLastDot(s) == IF s # <<>> /\ Last(s) = "." THEN Front(s) ELSE s

\* helper.parsePath of the two builds, applied to the token parseArg returned
parsePath(b, token) ==
  IF b = "bundle" THEN DropLastDot(DotPrefix(BracketsToDots(token))) ELSE token

\* helper.escapeJS
EscapeChar(c) ==
  IF c = "\"" THEN <<"\\", "\"">>
  ELSE IF c = "'" THEN <<"\\", "'">>
  ELSE IF c = "\n" THEN <<"\\", "n">>
  ELSE <<c>>
escapeJS(s) == Concat([k \in 1..Len(s) |-> EscapeChar(s[k])])

(* ------------------------- generated statements ------------------------ *)
(* The code a macro returns is a sequence of statements.  lit is the text  *)
(* placed between double quotes in the generated source; body the          *)
(* statements of a nested block or function.                               *)

Stmt(op, lit, body) == [op |-> op, lit |-> lit, body |-> body]

\* helper.output
output(s) == IF s = <<>> THEN <<>> ELSE <<Stmt("lit", escapeJS(s), <<>>)>>

\* helper.keepPath: '(function (path) {' code '}(path));'
keepPath(body) == <<Stmt("keep", <<>>, body)>>

(* ------------------------------- macros -------------------------------- *)

DotName == <<".">>
ArrowName == <<"-", ">">>
HasName == <<"h", "a", "s">>
EachName == <<"e", "a", "c", "h">>
PathName == <<"p", "a", "t", "h">>
OutName == <<"o", "u", "t">>
NativeNames == {DotName, ArrowName, HasName, EachName, PathName, OutName}

\* a member every object literal inherits from Object.prototype; macros[name] and
\* nativeMacros[name] read it when neither registry has the name as an own key
ConstructorName == <<"c", "o", "n", "s", "t", "r", "u", "c", "t", "o", "r">>
InheritedNames == {ConstructorName}

\* macros[macroName] || nativeMacros[macroName]
Lookup(reg, name) ==
  IF name \in DOMAIN reg THEN "user"
  ELSE IF name \in InheritedNames THEN "inherited"
  ELSE IF name \in NativeNames THEN "native"
  ELSE "none"

\* the message of throwError in parse, bundled: of its throw new Error
UnmatchedMessage(b) ==
  IF b = "bundle" THEN "Unmatched brace" ELSE "Unmatched curly bracket"

Ok(c) == [err |-> "none", name |-> <<>>, code |-> c]
Fail(e, n) == [err |-> e, name |-> n, code |-> <<>>]

\* Array.prototype.toString of a tree, as string concatenation renders it
RECURSIVE TreeToString(_)
TreeToString(tree) ==
  IF tree = <<>> THEN <<>>
  ELSE (IF Head(tree).t = "s" THEN Head(tree).s ELSE TreeToString(Head(tree).c))
       \o (IF Len(tree) > 1 THEN <<",">> ELSE <<>>) \o TreeToString(Tail(tree))

RECURSIVE transform(_, _, _), transformTree(_, _, _), Dispatch(_, _, _, _)

\* helper.transformTree: the fragments of the slots in document order; the first
\* exception ends it
transformTree(tree, reg, b) ==
  IF tree = <<>> THEN Ok(<<>>)
  ELSE LET first == IF Head(tree).t = "s" THEN Ok(output(Head(tree).s))
                    ELSE transform(Head(tree).c, reg, b)
       IN IF first.err # "none" THEN first
          ELSE LET rest == transformTree(Tail(tree), reg, b)
               IN IF rest.err # "none" THEN rest ELSE Ok(first.code \o rest.code)

\* the macro found for macroName, applied to the tree parseArg left
Dispatch(name, tree, reg, b) ==
  LET kind == Lookup(reg, name)
      path == parsePath(b, ArgToken(tree))
      kids == transformTree(ArgRest(tree), reg, b)
  IN CASE kind = "none" -> Fail("Not a macro", name)
       [] kind = "user" -> Ok(<<Stmt("lit", <<"U">>, <<>>)>>)
       [] kind = "inherited" -> Ok(<<Stmt("raw", TreeToString(tree), <<>>)>>)
       [] name = OutName -> transformTree(tree, reg, b)
       [] name = DotName -> Ok(<<Stmt("resolve", path, <<>>)>>)
       [] name = PathName -> Ok(<<Stmt("path", path, <<>>)>>)
       [] name = HasName ->
            IF kids.err # "none" THEN kids ELSE Ok(<<Stmt("has", path, kids.code)>>)
       [] name = ArrowName ->
            IF kids.err # "none" THEN kids
            ELSE Ok(keepPath(
                   <<Stmt("setpath", IF b = "bundle" THEN escapeJS(path) ELSE path, <<>>)>>
                   \o kids.code))
       [] name = EachName ->
            IF kids.err # "none" THEN kids
            ELSE Ok(keepPath(
                   <<Stmt("setpath", path, <<>>),
                     Stmt("each", path,
                          keepPath(<<Stmt("setitem", <<>>, <<>>)>> \o kids.code))>>))

\* transform of compile
transform(tree, reg, b) == Dispatch(ArgToken(tree), ArgRest(tree), reg, b)

(* ------------------- the generated source as JavaScript ---------------- *)

\* whether lit, placed between double quotes, is one string literal: no bare
\* quote or line break, no backslash left without a character to escape
RECURSIVE LiteralOk(_)
LiteralOk(lit) ==
  IF lit = <<>> THEN TRUE
  ELSE IF Head(lit) = "\\" THEN Len(lit) >= 2 /\ LiteralOk(Tail(Tail(lit)))
  ELSE Head(lit) \notin {"\"", "\n"} /\ LiteralOk(Tail(lit))

\* the string the literal denotes: \n is a line feed, \t a tab, a backslash before
\* a line break continues the line, before any other character of the alphabets
\* it denotes that character
RECURSIVE Unescape(_)
Unescape(lit) ==
  IF lit = <<>> THEN <<>>
  ELSE IF Head(lit) = "\\" /\ Len(lit) >= 2 THEN
         (CASE lit[2] = "n" -> <<"\n">>
            [] lit[2] = "t" -> <<"\t">>
            [] lit[2] = "\n" -> <<>>
            [] OTHER -> <<lit[2]>>) \o Unescape(Tail(Tail(lit)))
  ELSE <<Head(lit)>> \o Unescape(Tail(lit))

\* new Function(...) parses the source: every literal of it
RECURSIVE CodeOk(_)
CodeOk(c) ==
  \A k \in 1..Len(c) : (c[k].op = "raw" \/ LiteralOk(c[k].lit)) /\ CodeOk(c[k].body)

\* the text an inherited member left in the source (helper.wrapTemplate)
RECURSIVE RawText(_)
RawText(c) ==
  IF c = <<>> THEN <<>>
  ELSE (IF Head(c).op = "raw" THEN Head(c).lit ELSE <<>>) \o RawText(Head(c).body)
       \o RawText(Tail(c))

(* ------------------------------ data values ---------------------------- *)

Val(t, s, kids) == [t |-> t, s |-> s, kids |-> kids]
Undefined == Val("undefined", <<>>, <<>>)
Null == Val("null", <<>>, <<>>)
Num(k) == Val("number", NumStr(k), <<>>)
StrV(s) == Val("string", s, <<>>)
False == Val("boolean", <<"f", "a", "l", "s", "e">>, <<>>)
True == Val("boolean", <<"t", "r", "u", "e">>, <<>>)
Entry(k, v) == [k |-> k, v |-> v]
Obj(entries) == Val("object", <<>>, entries)
Arr(elems) == Val("array", <<>>, [k \in 1..Len(elems) |-> Entry(NumStr(k - 1), elems[k])])
\* what a property read of undefined or null raises
TypeError == Val("TypeError", <<>>, <<>>)

\* ToBoolean
Truthy(v) ==
  CASE v.t \in {"undefined", "null"} -> FALSE
    [] v.t = "number" -> v.s # <<"0">>
    [] v.t = "string" -> v.s # <<>>
    [] v.t = "boolean" -> v = True
    [] OTHER -> TRUE

\* the own keys of a value in enumeration order
Keys(v) ==
  IF v.t = "string" THEN [k \in 1..Len(v.s) |-> NumStr(k - 1)]
  ELSE [k \in 1..Len(v.kids) |-> v.kids[k].k]

\* obj[key]
Get(v, key) ==
  CASE v.t \in {"undefined", "null"} -> TypeError
    [] v.t \in {"object", "array"} ->
         IF \E k \in 1..Len(v.kids) : v.kids[k].k = key
         THEN v.kids[CHOOSE k \in 1..Len(v.kids) : v.kids[k].k = key].v
         ELSE Undefined
    [] v.t = "string" ->
         IF \E k \in 1..Len(v.s) : NumStr(k - 1) = key
         THEN StrV(<<v.s[CHOOSE k \in 1..Len(v.s) : NumStr(k - 1) = key]>>)
         ELSE Undefined
    [] OTHER -> Undefined

\* String(v) as Array.prototype.join applies it to an element
RECURSIVE ToStr(_), Join(_, _)
ToStr(v) ==
  CASE v.t \in {"undefined", "null"} -> <<>>
    [] v.t = "array" -> Join([k \in 1..Len(v.kids) |-> v.kids[k].v], <<",">>)
    [] v.t = "object" ->
         <<"[", "o", "b", "j", "e", "c", "t", " ", "O", "b", "j", "e", "c", "t", "]">>
    [] OTHER -> v.s
Join(vs, sep) ==
  IF Len(vs) = 0 THEN <<>>
  ELSE IF Len(vs) = 1 THEN ToStr(vs[1])
  ELSE ToStr(vs[1]) \o sep \o Join(Tail(vs), sep)

(* -------------------------------- runtime ------------------------------ *)

\* path.split(/\./).filter(function (part) { return part !== ''; })
RECURSIVE Split(_, _)
Split(s, part) ==
  IF s = <<>> THEN (IF part = <<>> THEN <<>> ELSE <<part>>)
  ELSE IF Head(s) = "." THEN (IF part = <<>> THEN <<>> ELSE <<part>>) \o Split(Tail(s), <<>>)
  ELSE Split(Tail(s), Append(part, Head(s)))

\* while (parts.length > 0 && obj[parts[0]]) { obj = obj[parts[0]]; parts.shift(); }
\* if (parts.length > 0) { return; }  return obj;
RECURSIVE Walk(_, _)
Walk(obj, parts) ==
  IF parts = <<>> THEN obj
  ELSE IF Get(obj, Head(parts)) = TypeError THEN TypeError
  ELSE IF Truthy(Get(obj, Head(parts))) THEN Walk(Get(obj, Head(parts)), Tail(parts))
  ELSE Undefined

\* resolve
resolve(path, obj) == Walk(obj, Split(path, <<>>))

\* runtime.addToPath of the current build: the two paths joined by a dot
addToPath(path, add) ==
  IF path = <<>> THEN add ELSE IF add = <<>> THEN path ELSE path \o <<".">> \o add

\* each, for (var key in obj) if (obj.hasOwnProperty(key)): an own member of that
\* name hides Object.prototype.hasOwnProperty, and a value that is no function
\* cannot be called
HasOwnPropertyName == <<"h", "a", "s", "O", "w", "n", "P", "r", "o", "p", "e", "r", "t", "y">>
eachRaises(obj) ==
  Truthy(obj) /\ obj.t = "object" /\ Get(obj, HasOwnPropertyName) # Undefined

\* each: the keys the iterator is called with, in order
\* (eachSkipFirst: the same with the loop begun at the second key)
eachSkipFirst(obj) ==
  IF ~Truthy(obj) \/ Keys(obj) = <<>> THEN <<>> ELSE Tail(Keys(obj))
each(obj) == IF ~Truthy(obj) THEN <<>> ELSE Keys(obj)

\* data = data || {}
DataOrEmpty(d) == IF Truthy(d) THEN d ELSE Obj(<<>>)

(* -------------------------------- inputs ------------------------------- *)

KeyA == <<"a">>
KeyB == <<"b">>

\* '{' name ' ' arg ' ' body '}', without the blanks an empty part would leave
Call(name, arg, body) ==
  <<"{">> \o name \o (IF arg = <<>> THEN <<>> ELSE <<" ">> \o arg)
          \o (IF body = <<>> THEN <<>> ELSE <<" ">> \o body) \o <<"}">>

BraceAlphabet == {"{", "}", "a", " "}
TextAlphabet == {"a", " ", "\n", "\"", "\\"}

\* a block macro around a template, followed by a sibling that prints the path
RECURSIVE Nest(_)
Nest(d) ==
  IF d = 0
  THEN {Call(PathName, <<>>, <<>>), Call(DotName, KeyB, <<>>), <<"x">>}
  ELSE {Call(m, KeyA, t) \o Call(PathName, <<>>, <<>>) :
          m \in {ArrowName, EachName, HasName}, t \in Nest(d - 1)}

MacroTemplates ==
  UNION {Nest(d) : d \in 0..MaxDepth}
  \cup {Call(DotName, KeyA, <<>>),
        Call(DotName, <<>>, <<>>),
        Call(DotName, <<"a", ".", "b">>, <<>>),
        Call(DotName, <<"a", "[", "0", "]">>, <<>>),
        Call(DotName, <<"a", "[", "\"", "b", "\"", "]">>, <<>>),
        Call(HasName, <<"a", ".", "b">>, <<"x">>),
        Call(EachName, KeyA, <<"<">> \o Call(DotName, KeyB, <<>>) \o <<">">>),
        Call(EachName, KeyA, Call(PathName, KeyB, <<>>) \o <<" ">>),
        Call(EachName, <<>>, Call(PathName, <<>>, <<>>)),
        Call(HasName, KeyA, <<"x">>),
        Call(HasName, KeyA, Call(<<"z">>, <<>>, <<>>)),
        Call(<<"z">>, KeyA, <<>>),
        Call(ConstructorName, <<>>, <<>>),
        Call(ConstructorName, KeyA, <<>>)}

Templates ==
  Strings(BraceAlphabet, MaxLen) \cup Strings(TextAlphabet, MaxText) \cup MacroTemplates

\* options.macros: none, one macro under a new name, one under a built-in's name
NoMacros == [n \in {} |-> "user"]
MacroZ == [n \in {<<"z">>} |-> "user"]
MacroHas == [n \in {HasName} |-> "user"]

\* templates compiled with a macro of the caller
UserInputs ==
  {<<Call(HasName, KeyA, <<"x">>), MacroHas>>,
   <<Call(EachName, KeyA, Call(HasName, KeyA, <<"x">>)), MacroHas>>,
   <<Call(<<"z">>, KeyA, <<>>), MacroZ>>,
   <<Call(HasName, KeyA, Call(<<"z">>, <<>>, <<>>)), MacroZ>>}

Leaves == {Num(0), Num(1), StrV(<<>>), StrV(<<"s">>), False, Null}
Items == {Num(0), Obj(<<Entry(KeyB, StrV(<<"x">>))>>)}

DataValues ==
  {Undefined, Num(1), Obj(<<>>)}
  \cup {Obj(<<Entry(KeyA, v)>>) : v \in Leaves}
  \cup {Obj(<<Entry(KeyA, Obj(<<Entry(KeyB, v)>>))>>) : v \in {Num(0), StrV(<<"y">>)}}
  \cup {Obj(<<Entry(KeyA, Arr(es))>>) : es \in Strings(Items, MaxArr)}
  \cup {Obj(<<Entry(KeyA, Obj(<<Entry(HasOwnPropertyName, Num(1))>>))>>)}
  \cup {Obj(<<Entry(KeyA, Obj(<<Entry(KeyA, Arr(<<StrV(<<"x">>), StrV(<<"y">>)>>))>>)),
              Entry(KeyB, StrV(<<"r">>))>>),
        Obj(<<Entry(KeyA, Arr(<<Obj(<<Entry(KeyA, Arr(<<StrV(<<"x">>)>>)),
                                      Entry(KeyB, Num(1))>>),
                                Obj(<<Entry(KeyA, Arr(<<>>))>>)>>))>>)}

(* ------------------------------ call frames ---------------------------- *)

Frame(kind, c, own, path) ==
  [kind |-> kind, code |-> c, pc |-> 1, own |-> own, path |-> path, arg |-> path,
   keys |-> <<>>, ki |-> 1, item |-> <<>>, rpath |-> <<>>, coll |-> Undefined]

\* the function helper.wrapTemplate builds: var path = ""
MainFrame(c) == Frame("main", c, TRUE, <<>>)

\* (function (path) { ... }(path)): a parameter of its own, set to the caller's path
\* (KeepFrameShared: the same block without a parameter of its own)
KeepFrameShared(c, path) == Frame("keep", c, FALSE, path)
KeepFrame(c, path) == Frame("keep", c, TRUE, path)

\* the block of an if statement shares the variables around it
IfFrame(c) == Frame("if", c, FALSE, <<>>)

\* each(obj, iterator) running its loop over the keys of obj
LoopFrame(c, rpath, coll) ==
  [Frame("loop", c, FALSE, <<>>) EXCEPT !.keys = each(coll), !.rpath = rpath, !.coll = coll]

\* function (__itemPath) { ... } called with one key
CallbackFrame(c, key) == [Frame("cb", c, FALSE, <<>>) EXCEPT !.item = key]

\* the variable path as the innermost scope sees it
RECURSIVE PathIn(_)
PathIn(fs) ==
  IF fs = <<>> THEN <<>> ELSE IF Last(fs).own THEN Last(fs).path ELSE PathIn(Front(fs))

\* an assignment to path writes the variable of the innermost scope that has one
RECURSIVE AssignPath(_, _)
AssignPath(fs, p) ==
  IF fs = <<>> THEN <<>>
  ELSE IF Last(fs).own THEN Append(Front(fs), [Last(fs) EXCEPT !.path = p])
  ELSE Append(AssignPath(Front(fs), p), Last(fs))

\* __itemPath of the innermost iterator call
RECURSIVE ItemIn(_)
ItemIn(fs) ==
  IF fs = <<>> THEN <<>> ELSE IF Last(fs).kind = "cb" THEN Last(fs).item ELSE ItemIn(Front(fs))

Advance(fs) == [fs EXCEPT ![Len(fs)].pc = @ + 1]

\* the argument the generated code gives resolve for '.' and has
ValuePath(b, path, lit) ==
  IF b = "bundle" THEN path \o Unescape(lit) ELSE addToPath(path, Unescape(lit))

\* path = addToPath(path, "..."), bundled: path += "..."
ExtendedPath(b, path, lit) ==
  IF b = "bundle" THEN path \o Unescape(lit) ELSE addToPath(path, Unescape(lit))

\* path = addToPath(path, __itemPath), bundled: path += "." + __itemPath
ItemPath(b, path, key) ==
  IF b = "bundle" THEN path \o <<".">> \o key ELSE addToPath(path, key)

\* the argument the generated code of each gives resolve: the path just extended,
\* bundled: the macro's own argument
EachPath(b, path, lit) == IF b = "bundle" THEN Unescape(lit) ELSE path

(* ------------------------------ compile -------------------------------- *)

Idle ==
  /\ macroName = <<>> /\ err = "none" /\ code = <<>> /\ data = Undefined
  /\ frames = <<>> /\ out = <<>> /\ result = <<>>

\* compile(input, options): parse('out ' + input, options) begins
Init ==
  /\ build \in Builds
  /\ \/ input \in Templates /\ macros = NoMacros
     \/ \E u \in UserInputs : input = u[1] /\ macros = u[2]
  /\ phase = "parse"
  /\ str = OutName \o <<" ">> \o input
  /\ i = 0
  /\ current = EmptyNode
  /\ stack = <<>>
  /\ results = <<>>
  /\ Idle

Scanning == phase = "parse" /\ i < Len(str)

ParseKeep == UNCHANGED <<build, input, str, results, macroName, macros, code, data,
                         frames, out, result>>

\* case '{'
ParseOpen ==
  /\ Scanning /\ str[i + 1] = "{"
  /\ stack' = Append(stack, current)
  /\ current' = OpenNode(current)
  /\ i' = i + 1
  /\ UNCHANGED <<phase, err>> /\ ParseKeep

\* case '}' with a node on the stack
ParseClose ==
  /\ Scanning /\ str[i + 1] = "}" /\ stack # <<>>
  /\ current' = CloseNode(Last(stack), current)
  /\ stack' = Front(stack)
  /\ i' = i + 1
  /\ UNCHANGED <<phase, err>> /\ ParseKeep

\* case '}' with the stack empty: stack.pop() is undefined, parent.push throws
ParseCloseEmpty ==
  /\ Scanning /\ str[i + 1] = "}" /\ stack = <<>>
  /\ phase' = "threw" /\ err' = "TypeError"
  /\ UNCHANGED <<i, current, stack>> /\ ParseKeep

\* default
ParseChar ==
  /\ Scanning /\ str[i + 1] \notin {"{", "}"}
  /\ current' = AppendChar(current, str[i + 1])
  /\ i' = i + 1
  /\ UNCHANGED <<phase, err, stack>> /\ ParseKeep

\* if (stack.length !== 0) throwError('Unmatched curly bracket', options)
ParseUnmatched ==
  /\ phase = "parse" /\ i = Len(str) /\ stack # <<>>
  /\ phase' = "threw" /\ err' = UnmatchedMessage(build)
  /\ UNCHANGED <<i, current, stack>> /\ ParseKeep

\* return results
ParseReturn ==
  /\ phase = "parse" /\ i = Len(str) /\ stack = <<>>
  /\ results' = current
  /\ phase' = "parsed"
  /\ UNCHANGED <<build, input, str, i, current, stack, macroName, err, macros, code,
                 data, frames, out, result>>

\* transform(tree): var macroName = helper.parseArg(tree)
TransformArg ==
  /\ phase = "parsed"
  /\ macroName' = ArgToken(results)
  /\ results' = ArgRest(results)
  /\ phase' = "named"
  /\ UNCHANGED <<build, input, str, i, current, stack, err, macros, code, data, frames,
                 out, result>>

\* macro(tree, transform), or throwError('Not a macro: ...')
TransformMacro ==
  /\ phase = "named"
  /\ LET r == Dispatch(macroName, results, macros, build)
     IN /\ err' = r.err
        /\ macroName' = IF r.err = "none" THEN macroName ELSE r.name
        /\ code' = r.code
        /\ phase' = IF r.err = "none" THEN "transformed" ELSE "threw"
  /\ UNCHANGED <<build, input, str, i, current, stack, results, macros, data, frames,
                 out, result>>

\* helper.wrapTemplate: new Function('data', ...) parses the generated source.  What
\* it makes of text an inherited member left there is not decided by this program.
WrapTemplate ==
  /\ phase = "transformed"
  /\ \E ok \in IF ~CodeOk(code) THEN {FALSE}
               ELSE IF RawText(code) = <<>> THEN {TRUE} ELSE BOOLEAN :
       /\ phase' = IF ok THEN "compiled" ELSE "threw"
       /\ err' = IF ok THEN "none" ELSE "SyntaxError"
  /\ UNCHANGED <<build, input, str, i, current, stack, results, macroName, macros, code,
                 data, frames, out, result>>

(* ------------------------------- render -------------------------------- *)

RenderKeep == UNCHANGED <<build, input, str, i, current, stack, results, macroName,
                          macros, code>>

\* the render function is called: var path = "", __out = []; data = data || {}
CallRender ==
  /\ phase = "compiled"
  /\ \E d \in DataValues : data' = DataOrEmpty(d)
  /\ frames' = <<MainFrame(code)>>
  /\ out' = <<>>
  /\ phase' = "render"
  /\ UNCHANGED <<err, result>> /\ RenderKeep

Top == Last(frames)
At(op) ==
  /\ phase = "render" /\ Top.kind # "loop" /\ Top.pc <= Len(Top.code)
  /\ Top.code[Top.pc].op = op
Now == Top.code[Top.pc]

\* __out.push("...")
ExecOutput ==
  /\ At("lit")
  /\ out' = Append(out, StrV(Unescape(Now.lit)))
  /\ frames' = Advance(frames)
  /\ UNCHANGED <<phase, err, data, result>> /\ RenderKeep

\* __out.push(resolve(addToPath(path, "..."), data))
ExecResolve ==
  /\ At("resolve")
  /\ LET v == resolve(ValuePath(build, PathIn(frames), Now.lit), data)
     IN IF v = TypeError
        THEN phase' = "threw" /\ err' = "TypeError" /\ UNCHANGED <<out, frames>>
        ELSE out' = Append(out, v) /\ frames' = Advance(frames) /\ UNCHANGED <<phase, err>>
  /\ UNCHANGED <<data, result>> /\ RenderKeep

\* __out.push(addToPath(path, "..."))
ExecPath ==
  /\ At("path")
  /\ out' = Append(out, StrV(ValuePath(build, PathIn(frames), Now.lit)))
  /\ frames' = Advance(frames)
  /\ UNCHANGED <<phase, err, data, result>> /\ RenderKeep

\* if (typeof resolve(addToPath(path, "..."), data) !== "undefined") { ... }
ExecHas ==
  /\ At("has")
  /\ LET v == resolve(ValuePath(build, PathIn(frames), Now.lit), data)
     IN IF v = TypeError
        THEN phase' = "threw" /\ err' = "TypeError" /\ UNCHANGED frames
        ELSE /\ frames' = IF v # Undefined
                          THEN Append(Advance(frames), [IfFrame(Now.body) EXCEPT !.coll = v])
                          ELSE Advance(frames)
             /\ UNCHANGED <<phase, err>>
  /\ UNCHANGED <<out, data, result>> /\ RenderKeep

\* (function (path) { ... }(path))
ExecKeepPath ==
  /\ At("keep")
  /\ frames' = Append(Advance(frames), KeepFrame(Now.body, PathIn(frames)))
  /\ UNCHANGED <<phase, err, out, data, result>> /\ RenderKeep

\* path = addToPath(path, "...")
ExecSetPath ==
  /\ At("setpath")
  /\ frames' = Advance(AssignPath(frames, ExtendedPath(build, PathIn(frames), Now.lit)))
  /\ UNCHANGED <<phase, err, out, data, result>> /\ RenderKeep

\* path = addToPath(path, __itemPath)
ExecSetItem ==
  /\ At("setitem")
  /\ frames' = Advance(AssignPath(frames, ItemPath(build, PathIn(frames), ItemIn(frames))))
  /\ UNCHANGED <<phase, err, out, data, result>> /\ RenderKeep

\* each(resolve(path, data), function (__itemPath) { ... })
ExecEach ==
  /\ At("each")
  /\ LET rp == EachPath(build, PathIn(frames), Now.lit)
         v == resolve(rp, data)
     IN IF v = TypeError \/ eachRaises(v)
        THEN phase' = "threw" /\ err' = "TypeError" /\ UNCHANGED frames
        ELSE /\ frames' = Append(Advance(frames), LoopFrame(Now.body, rp, v))
             /\ UNCHANGED <<phase, err>>
  /\ UNCHANGED <<out, data, result>> /\ RenderKeep

\* iterator(i, obj[i]) / iterator(key, obj[key])
LoopCall ==
  /\ phase = "render" /\ Top.kind = "loop" /\ Top.ki <= Len(Top.keys)
  /\ frames' = Append([frames EXCEPT ![Len(frames)].ki = @ + 1],
                      CallbackFrame(Top.code, Top.keys[Top.ki]))
  /\ UNCHANGED <<phase, err, out, data, result>> /\ RenderKeep

\* each returns
LoopReturn ==
  /\ phase = "render" /\ Top.kind = "loop" /\ Top.ki > Len(Top.keys)
  /\ frames' = Front(frames)
  /\ UNCHANGED <<phase, err, out, data, result>> /\ RenderKeep

\* the end of a block or of a nested function
BlockReturn ==
  /\ phase = "render" /\ Top.kind # "loop" /\ Top.pc > Len(Top.code) /\ Len(frames) > 1
  /\ frames' = Front(frames)
  /\ UNCHANGED <<phase, err, out, data, result>> /\ RenderKeep

\* text an inherited member left in the source: nothing when empty, else an
\* expression statement the program does not decide the outcome of
ExecRaw ==
  /\ At("raw")
  /\ \E ok \in IF Now.lit = <<>> THEN {TRUE} ELSE BOOLEAN :
       IF ok THEN frames' = Advance(frames) /\ UNCHANGED <<phase, err>>
       ELSE phase' = "threw" /\ err' = "ReferenceError" /\ UNCHANGED frames
  /\ UNCHANGED <<out, data, result>> /\ RenderKeep

\* return __out.join("")
RenderReturn ==
  /\ phase = "render" /\ Len(frames) = 1 /\ Top.pc > Len(Top.code)
  /\ result' = Join(out, <<>>)
  /\ phase' = "done"
  /\ UNCHANGED <<err, out, data, frames>> /\ RenderKeep

Next ==
  \/ ParseOpen \/ ParseClose \/ ParseCloseEmpty \/ ParseChar \/ ParseUnmatched
  \/ ParseReturn \/ TransformArg \/ TransformMacro \/ WrapTemplate \/ CallRender
  \/ ExecOutput \/ ExecResolve \/ ExecPath \/ ExecHas \/ ExecKeepPath \/ ExecSetPath
  \/ ExecSetItem \/ ExecEach \/ LoopCall \/ LoopReturn \/ BlockReturn \/ ExecRaw
  \/ RenderReturn

Spec == Init /\ [][Next]_vars

(* ------------------------- parseArg on its own ------------------------- *)

ArgAlphabet == {"a", " ", "\n"}
ArgTails == {<<>>, <<NodeSlot(<<StrSlot(<<"a">>)>>), StrSlot(<<" ">>)>>}

\* a node as parse leaves it, about to be given to helper.parseArg; current keeps
\* the node as it was given
InitArg ==
  /\ build \in Builds
  /\ input \in Strings(ArgAlphabet, MaxArg)
  /\ macros = NoMacros
  /\ phase = "parsed"
  /\ str = input
  /\ i = Len(str)
  /\ \E tail \in ArgTails : current = <<StrSlot(input)>> \o tail
  /\ results = current
  /\ stack = <<>>
  /\ Idle

NextArg == TransformArg

SpecArg == InitArg /\ [][NextArg]_vars

(* =============================== claims ================================ *)

\* the braces of s match: no '}' without an open '{', none left open
RECURSIVE DepthOk(_, _)
DepthOk(s, d) ==
  IF s = <<>> THEN d = 0
  ELSE IF Head(s) = "{" THEN DepthOk(Tail(s), d + 1)
  ELSE IF Head(s) = "}" THEN d > 0 /\ DepthOk(Tail(s), d - 1)
  ELSE DepthOk(Tail(s), d)
Balanced(s) == DepthOk(s, 0)

ParseEnded == phase # "parse"
ParseThrew == phase = "threw" /\ results = <<>>

\* C1: parse returns a tree for every text with balanced braces, and fails with the
\* Unmatched-brace error, and no other failure, for every text with an unmatched
\* '{' or an extra '}'.
C1_ParseErrors ==
  ParseEnded =>
    IF Balanced(str) THEN ~ParseThrew
    ELSE ParseThrew /\ err = UnmatchedMessage(build)

\* C8: the tree parse returns, written out in document order with '{' and '}'
\* around each child node, is the input; strings and child nodes alternate in every
\* node, beginning and ending with a string.
RECURSIVE Unparse(_)
Unparse(tree) ==
  IF tree = <<>> THEN <<>>
  ELSE (IF Head(tree).t = "s" THEN Head(tree).s
        ELSE <<"{">> \o Unparse(Head(tree).c) \o <<"}">>) \o Unparse(Tail(tree))
RECURSIVE WellShaped(_)
WellShaped(tree) ==
  /\ Len(tree) % 2 = 1
  /\ \A k \in 1..Len(tree) :
       IF k % 2 = 1 THEN tree[k].t = "s" /\ tree[k].c = <<>>
       ELSE tree[k].t = "n" /\ tree[k].s = <<>> /\ WellShaped(tree[k].c)
NoSpace(s) == \A k \in 1..Len(s) : ~IsSpace(s[k])
AllSpace(s) == \A k \in 1..Len(s) : IsSpace(s[k])
Given == current[1].s
Left == results[1].s

\* C10 as claimed: parseArg returns the first run of non-whitespace characters found
\* anywhere in the leading slot (empty only if there is none) and leaves the slot
\* without that token and the whitespace following it.
SpaceBefore(s) == SubSeq(s, 1, Len(s) - Len(DropSpace(s)))
FirstRun(s) == LeadRun(DropSpace(s))
AfterFirstRun(s) ==
  DropSpace(SubSeq(DropSpace(s), Len(FirstRun(s)) + 1, Len(DropSpace(s))))
C10_FirstRunAnywhere ==
  phase = "named" =>
    /\ macroName = FirstRun(Given)
    /\ Left = IF AllSpace(Given) THEN <<>> ELSE SpaceBefore(Given) \o AfterFirstRun(Given)
    /\ Tail(results) = Tail(current)

\* C10 as amended: parseArg returns the run of non-whitespace characters the leading
\* slot begins with (empty when the slot is empty or begins with whitespace); the slot
\* is left without that token and the whitespace that followed it; the other slots
\* are unchanged.
C10_ParseArg ==
  phase = "named" =>
    /\ NoSpace(macroName)
    /\ SubSeq(Given, 1, Len(macroName)) = macroName
    /\ Len(Given) > Len(macroName) => IsSpace(Given[Len(macroName) + 1])
    /\ Len(macroName) + Len(Left) <= Len(Given)
    /\ SubSeq(Given, Len(Given) - Len(Left) + 1, Len(Given)) = Left
    /\ AllSpace(SubSeq(Given, Len(macroName) + 1, Len(Given) - Len(Left)))
    /\ Left # <<>> => ~IsSpace(Left[1])
    /\ Tail(results) = Tail(current)
C10_Witness ==
  /\ phase = "named" /\ Len(results) > 1
  /\ Given # <<>> /\ IsSpace(Head(Given)) /\ ~AllSpace(Given)
  /\ macroName = <<>> /\ Left # <<>>

(* ------------------------------- rendering ----------------------------- *)

RenderedPlain == phase = "done" /\ macros = NoMacros
Below(j) == SubSeq(frames, 1, j - 1)

\* C2: a value that is present but falsy (0, the empty string, false) is treated as
\* present: '.' appends it to the output and 'has' renders its children.
FalsyPresent == {Num(0), StrV(<<>>), False}
C2_FalsyIsPresent ==
  (RenderedPlain /\ Get(data, KeyA) \in FalsyPresent) =>
    /\ input = Call(DotName, KeyA, <<>>) => result = ToStr(Get(data, KeyA))
    /\ input = Call(HasName, KeyA, <<"x">>) => result = <<"x">>

\* a value other than absent lies at the end of the keys, each an own key of a container
RECURSIVE Present(_, _)
Present(v, keys) ==
  IF keys = <<>> THEN v # Undefined
  ELSE /\ v.t \in {"object", "array"}
       /\ \E k \in 1..Len(v.kids) : v.kids[k].k = Head(keys)
       /\ Present(Get(v, Head(keys)), Tail(keys))

KeysAB == <<KeyA, KeyB>>
PathAB == <<"a", ".", "b">>

\* C3: rendering code built from the built-in macros never raises, whatever the data
\* (omitted, a key missing at any depth, a path through a value that is no
\* container); an absent value renders as empty text for '.', makes 'has' skip its
\* children and makes 'each' run no iteration.
C3_NeverRaises ==
  /\ ~(phase = "threw" /\ frames # <<>> /\ err = "TypeError")
  /\ \A j \in 1..Len(frames) :
       /\ frames[j].kind = "if" => frames[j].coll # Undefined
       /\ (frames[j].kind = "loop" /\ frames[j].coll = Undefined) => frames[j].keys = <<>>
  /\ (RenderedPlain /\ ~Present(data, KeysAB)) =>
       /\ input = Call(DotName, PathAB, <<>>) => result = <<>>
       /\ input = Call(HasName, PathAB, <<"x">>) => result = <<>>
  /\ (RenderedPlain /\ ~Present(data, <<KeyA>>)) =>
       /\ input = Call(EachName, KeyA, <<"<">> \o Call(DotName, KeyB, <<>>) \o <<">">>)
            => result = <<>>

\* C4: an each over an array of length n calls its body n times, with the indices
\* 0..n-1 in order, and in the k-th call the current path is the path of the each
\* extended by k.
IndexKeys(n) == [k \in 1..n |-> NumStr(k - 1)]
Extended(b, base, key) ==
  IF b = "compiler" /\ base = <<>> THEN key ELSE base \o <<".">> \o key
ItemsOfA == [k \in 1..Len(Get(data, KeyA).kids) |-> Get(data, KeyA).kids[k].v]
C4_EachInOrder ==
  /\ \A j \in 1..Len(frames) :
       /\ (frames[j].kind = "loop" /\ frames[j].coll.t = "array") =>
            /\ frames[j].keys = IndexKeys(Len(frames[j].coll.kids))
            /\ frames[j].ki \in 1..(Len(frames[j].keys) + 1)
       /\ (frames[j].kind = "cb" /\ frames[j - 1].coll.t = "array") =>
            /\ frames[j].item = NumStr(frames[j - 1].ki - 2)
            /\ (j < Len(frames) /\ frames[j + 1].pc > 1) =>
                 frames[j + 1].path = Extended(build, PathIn(Below(j - 1)), frames[j].item)
  /\ (RenderedPlain /\ Get(data, KeyA).t = "array") =>
       /\ input = Call(EachName, KeyA, <<"<">> \o Call(DotName, KeyB, <<>>) \o <<">">>) =>
            result = Concat([k \in 1..Len(ItemsOfA) |->
                               <<"<">> \o ToStr(Get(ItemsOfA[k], KeyB)) \o <<">">>])
       /\ input = Call(EachName, KeyA, Call(PathName, KeyB, <<>>) \o <<" ">>) =>
            result = Concat([k \in 1..Len(ItemsOfA) |->
                               Extended(build, Extended(build, Extended(build, <<>>, KeyA),
                                                        NumStr(k - 1)), KeyB) \o <<" ">>])
C4_Witness ==
  /\ RenderedPlain /\ Get(data, KeyA).t = "array" /\ Len(ItemsOfA) = 2
  /\ input = Call(EachName, KeyA, Call(PathName, KeyB, <<>>) \o <<" ">>)

\* C5: the collection an each iterates is resolved at the current path extended by
\* the argument of the each: the path given to resolve is the path the body sees
\* less the key of the entry.
C5_EachResolvesAmbient ==
  \A j \in 1..Len(frames) :
    frames[j].kind = "loop" =>
      /\ frames[j].rpath = PathIn(Below(j))
      /\ frames[j].coll = resolve(PathIn(Below(j)), data)

\* C6: the path changes of '->' and each are scoped: while the code of such a node
\* (or of one iteration) runs, and so when it has run, the path of the code around it
\* is the path in effect before the node.
C6_PathScoped ==
  /\ \A j \in 1..Len(frames) :
       frames[j].kind = "keep" => PathIn(Below(j)) = frames[j].arg
  /\ (RenderedPlain /\ build = "compiler" /\ Get(Get(data, KeyA), KeyA).t = "array"
      /\ input = Call(ArrowName, KeyA, Call(EachName, KeyA, <<"x">>)
                                        \o Call(PathName, <<>>, <<>>))
                 \o Call(PathName, <<>>, <<>>)) =>
       result = Concat([k \in 1..Len(Get(Get(data, KeyA), KeyA).kids) |-> <<"x">>]) \o KeyA
C6_Witness ==
  /\ phase = "render" /\ Len(frames) >= 2 /\ Top.kind = "keep"
  /\ Top.pc >= 2 /\ Top.pc <= Len(Top.code)
  /\ Top.code[Top.pc - 1].op = "keep" /\ Top.code[Top.pc].op = "path"
  /\ Len(Top.code[Top.pc - 1].body) >= 2
  /\ Top.code[Top.pc - 1].body[2].op = "each"
  /\ Get(Get(data, KeyA), KeyA).t = "array"
  /\ Top.path # <<>>


\* the macro names of a tree: of the node and of every node below it
RECURSIVE NodeNames(_)
NodeNames(tree) ==
  {ArgToken(tree)}
  \cup UNION {NodeNames(tree[k].c) : k \in {j \in 1..Len(tree) : tree[j].t = "n"}}

Unknown(name) == name \notin DOMAIN macros /\ name \notin NativeNames
TransformEnded == results # <<>> /\ phase \notin {"parsed", "named"}

\* C7: transform takes the macro of the caller with that name, else the built-in,
\* else aborts compilation with the Unknown-macro error naming the macro: a macro of
\* the caller under a built-in's name is the one invoked, and compile returns no
\* render function when a node at any depth names an unknown macro.
C7_MacroResolution ==
  TransformEnded =>
    /\ (\E n \in NodeNames(current) : Unknown(n)) =>
         phase = "threw" /\ err = "Not a macro" /\ Unknown(macroName)
    /\ (phase = "threw" /\ err = "Not a macro") => Unknown(macroName)
    /\ (macros = MacroHas /\ input = Call(HasName, KeyA, <<"x">>)) =>
         code = <<Stmt("lit", <<"U">>, <<>>)>>

NoBraces(s) == \A k \in 1..Len(s) : s[k] \notin {"{", "}"}

\* C9: literal text passes through unchanged: a template without braces renders, for
\* any data, to the template text itself.
C9_LiteralPassthrough ==
  NoBraces(input) => phase # "threw" /\ (phase = "done" => result = input)

====
